---- MODULE Spec2Model ----
(***************************************************************************)
(* Claim coordination and status lifecycle of the Team Project & Problem   *)
(* Tracker.  The repository holds two revisions of the data-access code    *)
(* over the same SQLite file tracker.db: the monolith src/app.py and the   *)
(* package src/src/database.  Operators prefixed app_ model the former,    *)
(* operators prefixed db_ the latter.                                      *)
(*                                                                         *)
(* Storage model (SQLite, rollback journal, Python sqlite3 defaults): the  *)
(* committed tables are visible to every connection; a connection that     *)
(* executes an UPDATE or INSERT takes the single write lock and works on   *)
(* a private copy until it commits or rolls back; a second writer waits.   *)
(* Foreign keys are declared but never enabled (no PRAGMA foreign_keys).   *)
(***************************************************************************)
EXTENDS Integers, Sequences, FiniteSets, TLC

\* ---------------------------------------------------------------- bounds
NumProcs    == 2   \* concurrent sessions
MaxUsers    == 2   \* rows of table users
MaxProblems == 1   \* rows of table problems
MaxProjects == 1   \* rows of table projects
MaxTime     == 2   \* values of CURRENT_TIMESTAMP
MaxCategories == 2 \* rows of table categories
MaxPoints   == 2   \* largest point weight of a category
StoreProblems == 2 \* rows of table problems in the stores drawn by InitStore

\* ------------------------------------------------------------- constants
NULL == -1         \* SQL NULL / Python None in an integer or timestamp column
SENTINEL == 0      \* the legacy "unclaimed" value 0

PROBLEM_STATUSES == {"Open", "In Progress", "Completed"}
PROJECT_STATUSES == {"Open", "In Progress", "Completed"}
\* a status string outside the enumeration, which the functions also accept
StatusInputs == PROBLEM_STATUSES \cup {"Blocked"}

Procs      == 1..NumProcs
ProblemIds == 1..MaxProblems
ProjectIds == 1..MaxProjects
\* user_id arguments: None, 0, and ids of which some may match no user
UserInputs == {NULL, SENTINEL} \cup (1..MaxUsers)

VARIABLES
    users,      \* number of rows of table users (ids 1..users, AUTOINCREMENT)
    problems,   \* committed table problems: sequence indexed by id
    projects,   \* committed table projects: sequence indexed by id
    now,        \* CURRENT_TIMESTAMP
    writer,     \* the session holding the write lock, 0 when free
    txn,        \* the lock holder's uncommitted copy of table problems
    call,       \* per session: the call in flight or the last one made
    usernames,  \* users.username by user id; a number is a name's place in
                \* the collation order
    categories, \* committed table categories: sequence indexed by id
    problem_categories, \* table problem_categories: pairs <<problem_id, category_id>>
    board       \* the list returned by the last get_leaderboard call

\* the tables and results that only the scoring reads or writes
scoring == <<usernames, categories, problem_categories, board>>

vars == <<users, problems, projects, now, writer, txn, call, scoring>>

\* ------------------------------------------------------------- schema
\* CREATE TABLE problems: status DEFAULT 'Open', claimed_by_user_id, completed_at
ProblemRow(claimed_by_user_id) ==
    [status |-> "Open", claimed_by_user_id |-> claimed_by_user_id, completed_at |-> NULL]

\* CREATE TABLE projects: status DEFAULT 'Open', completed_at
ProjectRow == [status |-> "Open", completed_at |-> NULL]

\* CREATE TABLE categories: points INTEGER NOT NULL
CategoryRow(points) == [points |-> points]

\* the users table holds ids 1..users; no code path deletes a user
UserExists(u) == u \in 1..users

\* SELECT ... WHERE id = ? returns a row
RowExists(tbl, id) == id \in 1..Len(tbl)

\* a slip: the UPDATE has no WHERE clause and rewrites every row
SetRow_every_row(tbl, id, row) == [i \in 1..Len(tbl) |-> row]

\* UPDATE ... WHERE id = ?: rewrites the row when it exists, else matches nothing
SetRow(tbl, id, row) == IF RowExists(tbl, id) THEN [tbl EXCEPT ![id] = row] ELSE tbl

\* a session's call record
Call(op, pc, id, user_id, status, outcome) ==
    [op |-> op, pc |-> pc, id |-> id, user_id |-> user_id, status |-> status,
     outcome |-> outcome]

NoCall == Call("none", "idle", NULL, NULL, "", "none")

\* a session may start a call when it has none in flight
Ready(s) == call[s].pc \in {"idle", "done"}

Returned(s, op, id, user_id, status, outcome) ==
    call' = [call EXCEPT ![s] = Call(op, "done", id, user_id, status, outcome)]

Init ==
    /\ users = 0
    /\ problems = << >>
    /\ projects = << >>
    /\ now = 1
    /\ writer = 0
    /\ txn = << >>
    /\ call = [s \in Procs |-> NoCall]
    /\ usernames = << >>
    /\ categories = << >>
    /\ problem_categories = {}
    /\ board = << >>

\* ------------------------------------------------- creation and the clock
\* st.rerun() after an operation: the script starts over and the message of
\* the last call is gone
rerun(s) ==
    /\ call[s].pc = "done"
    /\ call' = [call EXCEPT ![s] = NoCall]
    /\ UNCHANGED <<users, problems, projects, now, writer, txn, scoring>>

Tick ==
    /\ now < MaxTime
    /\ now' = now + 1
    /\ UNCHANGED <<users, problems, projects, writer, txn, call, scoring>>

\* src/app.py add_user / src/src/auth/auth.py add_user: INSERT INTO users;
\* username is UNIQUE, a second row of the same name is refused
add_user(username) ==
    /\ writer = 0
    /\ users < MaxUsers
    /\ \A u \in 1..users : usernames[u] # username
    /\ users' = users + 1
    /\ usernames' = Append(usernames, username)
    /\ UNCHANGED <<problems, projects, now, writer, txn, call,
                   categories, problem_categories, board>>

\* a slip: the UPDATE has no WHERE clause
update_category_points_every_row(s, category_id, points) ==
    /\ Ready(s)
    /\ writer = 0
    /\ categories' = [c \in 1..Len(categories) |-> CategoryRow(points)]
    /\ Returned(s, "update_category_points", category_id, NULL, "", "success")
    /\ UNCHANGED <<users, problems, projects, now, writer, txn,
                   usernames, problem_categories, board>>

\* src/src/database/categories.py update_category_points:
\* UPDATE categories SET points = ? WHERE id = ?
update_category_points(s, category_id, points) ==
    /\ Ready(s)
    /\ writer = 0
    /\ categories' = SetRow(categories, category_id, CategoryRow(points))
    /\ Returned(s, "update_category_points", category_id, NULL, "", "success")
    /\ UNCHANGED <<users, problems, projects, now, writer, txn,
                   usernames, problem_categories, board>>

\* src/app.py add_project: INSERT INTO projects (name, description, type)
add_project ==
    /\ writer = 0
    /\ Len(projects) < MaxProjects
    /\ projects' = Append(projects, ProjectRow)
    /\ UNCHANGED <<users, problems, now, writer, txn, call, scoring>>

\* src/app.py add_problem: INSERT INTO problems (..., claimed_by_user_id), then
\* one INSERT INTO problem_categories per element of category_ids
add_problem(s, claimed_by_user_id, category_ids) ==
    /\ Ready(s)
    /\ writer = 0
    /\ Len(problems) < MaxProblems
    /\ problems' = Append(problems, ProblemRow(claimed_by_user_id))
    /\ problem_categories' =
          problem_categories \cup {<<Len(problems) + 1, c>> : c \in category_ids}
    /\ Returned(s, "add_problem", Len(problems) + 1, claimed_by_user_id, "", "success")
    /\ UNCHANGED <<users, projects, now, writer, txn, usernames, categories, board>>

\* ------------------------------------------------- status lifecycle
\* src/app.py update_problem_status / update_project_status: the SET clause
app_status_row(row, status) ==
    [row EXCEPT !.status = status,
                !.completed_at = IF status = "Completed" THEN now ELSE NULL]

\* a slip: completing a row that already carries a timestamp withdraws it
db_status_row_toggles_timestamp(row, new_status) ==
    [row EXCEPT !.status = new_status,
                !.completed_at = IF new_status = "Completed"
                                 THEN (IF @ = NULL THEN now ELSE NULL) ELSE @]

\* src/src/database/problems.py update_problem_status: the SET clause
db_status_row(row, new_status) ==
    [row EXCEPT !.status = new_status,
                !.completed_at = IF new_status = "Completed" THEN now ELSE @]

\* a slip: completing a problem also releases it
db_complete_row_releases(row) ==
    [row EXCEPT !.status = "Completed", !.completed_at = now,
                !.claimed_by_user_id = NULL]

\* src/src/database/problems.py complete_problem: the SET clause
db_complete_row(row) == [row EXCEPT !.status = "Completed", !.completed_at = now]

app_update_project_status(s, project_id, status) ==
    /\ Ready(s)
    /\ writer = 0
    /\ projects' = IF RowExists(projects, project_id)
                   THEN SetRow(projects, project_id, app_status_row(projects[project_id], status))
                   ELSE projects
    /\ Returned(s, "app_update_project_status", project_id, NULL, status, "success")
    /\ UNCHANGED <<users, problems, now, writer, txn, scoring>>

app_update_problem_status(s, problem_id, status) ==
    /\ Ready(s)
    /\ writer = 0
    /\ problems' = IF RowExists(problems, problem_id)
                   THEN SetRow(problems, problem_id, app_status_row(problems[problem_id], status))
                   ELSE problems
    /\ Returned(s, "app_update_problem_status", problem_id, NULL, status, "success")
    /\ UNCHANGED <<users, projects, now, writer, txn, scoring>>

db_update_problem_status(s, problem_id, new_status) ==
    /\ Ready(s)
    /\ writer = 0
    /\ problems' = IF RowExists(problems, problem_id)
                   THEN SetRow(problems, problem_id, db_status_row(problems[problem_id], new_status))
                   ELSE problems
    /\ Returned(s, "db_update_problem_status", problem_id, NULL, new_status, "success")
    /\ UNCHANGED <<users, projects, now, writer, txn, scoring>>

db_complete_problem(s, problem_id) ==
    /\ Ready(s)
    /\ writer = 0
    /\ problems' = IF RowExists(problems, problem_id)
                   THEN SetRow(problems, problem_id, db_complete_row(problems[problem_id]))
                   ELSE problems
    /\ Returned(s, "db_complete_problem", problem_id, NULL, "Completed", "success")
    /\ UNCHANGED <<users, projects, now, writer, txn, scoring>>

\* ------------------------------------------------- unclaim
\* a slip: the unclaim clears the claimant and forgets the status
app_unclaim_row_keeps_status(row) == [row EXCEPT !.claimed_by_user_id = NULL]

\* src/app.py unclaim_problem: the SET clause
app_unclaim_row(row) == [row EXCEPT !.claimed_by_user_id = NULL, !.status = "Open"]

\* src/src/database/problems.py unclaim_problem: the SET clause
db_unclaim_row(row) == [row EXCEPT !.claimed_by_user_id = NULL, !.status = "Open"]

app_unclaim_problem(s, problem_id) ==
    /\ Ready(s)
    /\ writer = 0
    /\ problems' = IF RowExists(problems, problem_id)
                   THEN SetRow(problems, problem_id, app_unclaim_row(problems[problem_id]))
                   ELSE problems
    /\ Returned(s, "app_unclaim_problem", problem_id, NULL, "", "success")
    /\ UNCHANGED <<users, projects, now, writer, txn, scoring>>

db_unclaim_problem(s, problem_id) ==
    /\ Ready(s)
    /\ writer = 0
    /\ problems' = IF RowExists(problems, problem_id)
                   THEN SetRow(problems, problem_id, db_unclaim_row(problems[problem_id]))
                   ELSE problems
    /\ Returned(s, "db_unclaim_problem", problem_id, NULL, "", "success")
    /\ UNCHANGED <<users, projects, now, writer, txn, scoring>>

\* ------------------------------------------------- claim, src/app.py
\* a slip: the initial check takes the legacy 0 for a claimant
app_is_claimed_unless_null(claimed_by_user_id) == claimed_by_user_id # NULL

\* claim_problem, the initial check: result[0] is not None and result[0] != 0
app_is_claimed(claimed_by_user_id) ==
    claimed_by_user_id # NULL /\ claimed_by_user_id # SENTINEL

\* claim_problem: user_id is None or user_id == 0 raises ValueError
app_invalid_user(user_id) == user_id = NULL \/ user_id = SENTINEL

\* claim_problem, the UPDATE's guard: claimed_by_user_id IS NULL OR claimed_by_user_id = 0
app_claim_where(row) ==
    row.claimed_by_user_id = NULL \/ row.claimed_by_user_id = SENTINEL

\* a slip: the claim also clears the completion timestamp
app_claim_row_clears_timestamp(row, user_id) ==
    [row EXCEPT !.claimed_by_user_id = user_id, !.status = "In Progress",
                !.completed_at = NULL]

\* claim_problem, the UPDATE's SET clause
app_claim_row(row, user_id) ==
    [row EXCEPT !.claimed_by_user_id = user_id, !.status = "In Progress"]

\* a slip: the verification looks at the status only
app_claim_verified_by_status(tbl, problem_id, user_id) ==
    /\ RowExists(tbl, problem_id)
    /\ tbl[problem_id].status = "In Progress"

\* claim_problem, the verification of the row read back inside the transaction
app_claim_verified(tbl, problem_id, user_id) ==
    /\ RowExists(tbl, problem_id)
    /\ tbl[problem_id].claimed_by_user_id = user_id
    /\ tbl[problem_id].status = "In Progress"

\* app_claim_check with a claimant test that compares the claimant with the
\* requesting user
app_claim_check_lets_holder_through(s, problem_id, user_id) ==
    /\ Ready(s)
    /\ IF ~RowExists(problems, problem_id)
       THEN Returned(s, "app_claim_problem", problem_id, user_id, "", "NotFound")
       ELSE IF /\ app_is_claimed(problems[problem_id].claimed_by_user_id)
               /\ problems[problem_id].claimed_by_user_id # user_id
       THEN Returned(s, "app_claim_problem", problem_id, user_id, "", "AlreadyClaimed")
       ELSE IF app_invalid_user(user_id)
       THEN Returned(s, "app_claim_problem", problem_id, user_id, "", "InvalidUser")
       ELSE call' = [call EXCEPT ![s] =
                Call("app_claim_problem", "update", problem_id, user_id, "", "none")]
    /\ UNCHANGED <<users, problems, projects, now, writer, txn, scoring>>

\* the first SELECT (outside any transaction), the early returns, BEGIN and the
\* user_id test; none of these takes a lock
app_claim_check(s, problem_id, user_id) ==
    /\ Ready(s)
    /\ IF ~RowExists(problems, problem_id)
       THEN Returned(s, "app_claim_problem", problem_id, user_id, "", "NotFound")
       ELSE IF app_is_claimed(problems[problem_id].claimed_by_user_id)
       THEN Returned(s, "app_claim_problem", problem_id, user_id, "", "AlreadyClaimed")
       ELSE IF app_invalid_user(user_id)
       THEN Returned(s, "app_claim_problem", problem_id, user_id, "", "InvalidUser")
       ELSE call' = [call EXCEPT ![s] =
                Call("app_claim_problem", "update", problem_id, user_id, "", "none")]
    /\ UNCHANGED <<users, problems, projects, now, writer, txn, scoring>>

\* the conditional UPDATE: takes the write lock (waits while another session
\* holds it) and changes the session's private copy of the table
app_claim_update(s) ==
    /\ call[s].pc = "update"
    /\ writer = 0
    /\ writer' = s
    /\ txn' = IF app_claim_where(problems[call[s].id])
              THEN SetRow(problems, call[s].id,
                          app_claim_row(problems[call[s].id], call[s].user_id))
              ELSE problems
    /\ call' = [call EXCEPT ![s].pc = "verify"]
    /\ UNCHANGED <<users, problems, projects, now, scoring>>

\* verification passed: conn.commit() publishes the copy and releases the lock
app_claim_commit(s) ==
    /\ call[s].pc = "verify"
    /\ writer = s
    /\ app_claim_verified(txn, call[s].id, call[s].user_id)
    /\ problems' = txn
    /\ writer' = 0
    /\ txn' = << >>
    /\ Returned(s, "app_claim_problem", call[s].id, call[s].user_id, "", "success")
    /\ UNCHANGED <<users, projects, now, scoring>>

\* a slip: the except branch reports the failure and forgets conn.rollback()
\* and the connection stays open
app_claim_rollback_keeps_lock(s) ==
    /\ call[s].pc = "verify"
    /\ writer = s
    /\ ~app_claim_verified(txn, call[s].id, call[s].user_id)
    /\ Returned(s, "app_claim_problem", call[s].id, call[s].user_id, "", "ClaimConflict")
    /\ UNCHANGED <<users, problems, projects, now, writer, txn, scoring>>

\* verification failed: conn.rollback() drops the copy and the exception is re-raised
app_claim_rollback(s) ==
    /\ call[s].pc = "verify"
    /\ writer = s
    /\ ~app_claim_verified(txn, call[s].id, call[s].user_id)
    /\ writer' = 0
    /\ txn' = << >>
    /\ Returned(s, "app_claim_problem", call[s].id, call[s].user_id, "", "ClaimConflict")
    /\ UNCHANGED <<users, problems, projects, now, scoring>>

\* the UPDATE finds the write lock held by another connection until the busy
\* timeout of sqlite3.connect expires: sqlite3.OperationalError, caught by the
\* inner handler (conn.rollback(), re-raise), then by except sqlite3.Error
app_claim_busy(s) ==
    /\ call[s].pc = "update"
    /\ writer # 0
    /\ Returned(s, "app_claim_problem", call[s].id, call[s].user_id, "", "StorageError")
    /\ UNCHANGED <<users, problems, projects, now, writer, txn, scoring>>

\* ------------------------------------------------- claim, src/src/database/problems.py
\* a slip: the claim stores the claimant and forgets the status
db_claim_row_keeps_status(row, user_id) == [row EXCEPT !.claimed_by_user_id = user_id]

\* claim_problem: the SET clause of the unconditional UPDATE ... WHERE id = ?
db_claim_row(row, user_id) ==
    [row EXCEPT !.claimed_by_user_id = user_id, !.status = "In Progress"]

db_claim_problem(s, problem_id, user_id) ==
    /\ Ready(s)
    /\ writer = 0
    /\ problems' = IF RowExists(problems, problem_id)
                   THEN SetRow(problems, problem_id, db_claim_row(problems[problem_id], user_id))
                   ELSE problems
    /\ Returned(s, "db_claim_problem", problem_id, user_id, "", "success")
    /\ UNCHANGED <<users, projects, now, writer, txn, scoring>>

\* claim_problem: the UPDATE finds the write lock held until the busy timeout
\* expires: except sqlite3.Error reports it, finally closes the connection
db_claim_busy(s, problem_id, user_id) ==
    /\ Ready(s)
    /\ writer # 0
    /\ Returned(s, "db_claim_problem", problem_id, user_id, "", "StorageError")
    /\ UNCHANGED <<users, problems, projects, now, writer, txn, scoring>>

\* ------------------------------------------------- claim, one call run alone
\* src/app.py claim_problem with no other session active: the message shown
\* and the table left behind
app_claim_result(tbl, problem_id, user_id) ==
    IF ~RowExists(tbl, problem_id)
    THEN [outcome |-> "NotFound", problems |-> tbl]
    ELSE IF app_is_claimed(tbl[problem_id].claimed_by_user_id)
    THEN [outcome |-> "AlreadyClaimed", problems |-> tbl]
    ELSE IF app_invalid_user(user_id)
    THEN [outcome |-> "InvalidUser", problems |-> tbl]
    ELSE LET copy == IF app_claim_where(tbl[problem_id])
                     THEN SetRow(tbl, problem_id, app_claim_row(tbl[problem_id], user_id))
                     ELSE tbl
         IN  IF app_claim_verified(copy, problem_id, user_id)
             THEN [outcome |-> "success", problems |-> copy]
             ELSE [outcome |-> "ClaimConflict", problems |-> tbl]

\* src/src/database/problems.py claim_problem with no other session active
db_claim_result(tbl, problem_id, user_id) ==
    [outcome |-> "success",
     problems |-> IF RowExists(tbl, problem_id)
                  THEN SetRow(tbl, problem_id, db_claim_row(tbl[problem_id], user_id))
                  ELSE tbl]

\* ------------------------------------------------- scoring, src/src/database/leaderboard.py
\* SUM(c.points) over the rows of a join; SUM skips NULL and is NULL when it
\* has added nothing
RECURSIVE SumPoints(_)
SumPoints(rows) ==
    IF \A r \in rows : r.points = NULL
    THEN NULL
    ELSE LET r == CHOOSE r \in rows : r.points # NULL
             rest == SumPoints(rows \ {r})
         IN  r.points + (IF rest = NULL THEN 0 ELSE rest)

\* get_user_points: FROM problems p JOIN problem_categories pc ON p.id =
\* pc.problem_id JOIN categories c ON pc.category_id = c.id
PointsJoin ==
    { [problem |-> pc[1], category |-> pc[2], points |-> categories[pc[2]].points] :
        pc \in { x \in problem_categories :
                    RowExists(problems, x[1]) /\ RowExists(categories, x[2]) } }

\* a slip: the WHERE clause forgets the status
get_user_points_any_status(user_id) ==
    LET rows == { r \in PointsJoin :
                    /\ user_id # NULL
                    /\ problems[r.problem].claimed_by_user_id = user_id }
        result == SumPoints(rows)
    IN  IF result # NULL THEN result ELSE 0

\* get_user_points: WHERE p.claimed_by_user_id = ? AND p.status = 'Completed'
\* (a comparison with NULL matches no row), then result if not None else 0
get_user_points(user_id) ==
    LET rows == { r \in PointsJoin :
                    /\ user_id # NULL
                    /\ problems[r.problem].claimed_by_user_id = user_id
                    /\ problems[r.problem].status = "Completed" }
        result == SumPoints(rows)
    IN  IF result # NULL THEN result ELSE 0

\* a slip: the ON clause forgets the status
BoardMatch_any_status(u, p) == problems[p].claimed_by_user_id = u

\* get_leaderboard: ... ON u.id = p.claimed_by_user_id AND p.status = 'Completed'
BoardMatch(u, p) ==
    problems[p].claimed_by_user_id = u /\ problems[p].status = "Completed"

\* a slip: JOIN in place of LEFT JOIN problems drops the users without a match
BoardUsersProblemsInner ==
    UNION { { [user |-> u, problem |-> p] :
                p \in { q \in 1..Len(problems) : BoardMatch(u, q) } } : u \in 1..users }

\* get_leaderboard: FROM users u LEFT JOIN problems p
BoardUsersProblems ==
    UNION { IF \E p \in 1..Len(problems) : BoardMatch(u, p)
            THEN { [user |-> u, problem |-> p] :
                     p \in { q \in 1..Len(problems) : BoardMatch(u, q) } }
            ELSE { [user |-> u, problem |-> NULL] } : u \in 1..users }

\* get_leaderboard: LEFT JOIN problem_categories pc ON p.id = pc.problem_id
BoardLinks ==
    UNION { IF \E pc \in problem_categories : pc[1] = r.problem
            THEN { [user |-> r.user, problem |-> r.problem, category |-> pc[2]] :
                     pc \in { x \in problem_categories : x[1] = r.problem } }
            ELSE { [user |-> r.user, problem |-> r.problem, category |-> NULL] } :
            r \in BoardUsersProblems }

\* get_leaderboard: LEFT JOIN categories c ON pc.category_id = c.id
BoardJoin ==
    { [user |-> r.user, problem |-> r.problem, category |-> r.category,
       points |-> IF RowExists(categories, r.category)
                  THEN categories[r.category].points ELSE NULL] : r \in BoardLinks }

\* get_leaderboard: SELECT u.username, COALESCE(SUM(c.points), 0) ... GROUP BY
\* u.id, u.username
BoardGroups ==
    { [user |-> u, username |-> usernames[u],
       total_points |-> LET total == SumPoints({ r \in BoardJoin : r.user = u })
                        IN  IF total # NULL THEN total ELSE 0] :
        u \in { r.user : r \in BoardJoin } }

\* ORDER BY total_points DESC: the rows in an order of descending totals; SQL
\* leaves the order of rows with equal totals to the engine
OrderByTotalDesc(groups) ==
    { f \in [1..Cardinality(groups) -> groups] :
        /\ \A i, j \in 1..Cardinality(groups) : i # j => f[i] # f[j]
        /\ \A i, j \in 1..Cardinality(groups) :
              i < j => f[i].total_points >= f[j].total_points }

\* get_leaderboard: the lists of (username, total_points) that fetchall() can
\* return in the current state
get_leaderboard ==
    { [i \in 1..Cardinality(BoardGroups) |-> <<f[i].username, f[i].total_points>>] :
        f \in OrderByTotalDesc(BoardGroups) }

\* a slip: range(len(leaderboard)) numbers the rows from 0
display_data_from_zero(leaderboard) ==
    [Rank     |-> [i \in 1..Len(leaderboard) |-> i - 1],
     Username |-> [i \in 1..Len(leaderboard) |-> leaderboard[i][1]],
     Points   |-> [i \in 1..Len(leaderboard) |-> leaderboard[i][2]]]

\* display_leaderboard: the columns handed to st.dataframe
display_data(leaderboard) ==
    [Rank     |-> [i \in 1..Len(leaderboard) |-> i],
     Username |-> [i \in 1..Len(leaderboard) |-> leaderboard[i][1]],
     Points   |-> [i \in 1..Len(leaderboard) |-> leaderboard[i][2]]]

\* display_leaderboard: calls get_leaderboard and shows its rows
display_leaderboard(s) ==
    /\ Ready(s)
    /\ board' \in get_leaderboard
    /\ Returned(s, "display_leaderboard", NULL, NULL, "", "success")
    /\ UNCHANGED <<users, problems, projects, now, writer, txn,
                   usernames, categories, problem_categories>>

\* ------------------------------------------------- specifications
\* The operations on table problems, of both revisions, by concurrent sessions.
\* Usernames and category links play no part in them: the users are named in
\* the order of their creation and the problems are created without categories.
Next ==
    \/ Tick
    \/ \E s \in Procs : rerun(s)
    \/ add_user(users + 1)
    \/ \E s \in Procs, u \in UserInputs : add_problem(s, u, {})
    \/ \E s \in Procs, id \in ProblemIds, st \in StatusInputs :
          app_update_problem_status(s, id, st)
    \/ \E s \in Procs, id \in ProblemIds, st \in StatusInputs :
          db_update_problem_status(s, id, st)
    \/ \E s \in Procs, id \in ProblemIds : db_complete_problem(s, id)
    \/ \E s \in Procs, id \in ProblemIds : app_unclaim_problem(s, id)
    \/ \E s \in Procs, id \in ProblemIds : db_unclaim_problem(s, id)
    \/ \E s \in Procs, id \in ProblemIds, u \in UserInputs : app_claim_check(s, id, u)
    \/ \E s \in Procs : app_claim_update(s)
    \/ \E s \in Procs : app_claim_commit(s)
    \/ \E s \in Procs : app_claim_rollback(s)
    \/ \E s \in Procs, id \in ProblemIds, u \in UserInputs : db_claim_problem(s, id, u)

Spec == Init /\ [][Next]_vars

\* The operations on table problems of src/app.py alone.
NextApp ==
    \/ Tick
    \/ \E s \in Procs : rerun(s)
    \/ add_user(users + 1)
    \/ \E s \in Procs, u \in UserInputs : add_problem(s, u, {})
    \/ \E s \in Procs, id \in ProblemIds, st \in StatusInputs :
          app_update_problem_status(s, id, st)
    \/ \E s \in Procs, id \in ProblemIds : app_unclaim_problem(s, id)
    \/ \E s \in Procs, id \in ProblemIds, u \in UserInputs : app_claim_check(s, id, u)
    \/ \E s \in Procs : app_claim_update(s)
    \/ \E s \in Procs : app_claim_commit(s)
    \/ \E s \in Procs : app_claim_rollback(s)

SpecApp == Init /\ [][NextApp]_vars

\* The operations on table projects; they share no row with the ones above.
NextProjects ==
    \/ Tick
    \/ \E s \in Procs : rerun(s)
    \/ add_project
    \/ \E s \in Procs, id \in ProjectIds, st \in StatusInputs :
          app_update_project_status(s, id, st)

SpecProjects == Init /\ [][NextProjects]_vars

\* A race: every session issues one claim call, of either revision, for a
\* problem that exists and is unclaimed when the first call starts.  The
\* initial states are the states of Spec with two users, one unclaimed problem
\* and no call made (a Completed row always carries a timestamp there).
UnclaimedRows ==
    { row \in [status : PROBLEM_STATUSES, claimed_by_user_id : {NULL, SENTINEL},
               completed_at : {NULL, 1}] :
        row.status = "Completed" => row.completed_at # NULL }

InitRace ==
    /\ users = MaxUsers
    /\ problems \in {<<row>> : row \in UnclaimedRows}
    /\ projects = << >>
    /\ now = 1
    /\ writer = 0
    /\ txn = << >>
    /\ call = [s \in Procs |-> NoCall]
    /\ usernames = [u \in 1..MaxUsers |-> u]
    /\ categories = << >>
    /\ problem_categories = {}
    /\ board = << >>

FirstCall(s) == call[s].pc = "idle"

NextRace ==
    \/ \E s \in Procs, id \in ProblemIds, u \in UserInputs :
          FirstCall(s) /\ app_claim_check(s, id, u)
    \/ \E s \in Procs : app_claim_update(s)
    \/ \E s \in Procs : app_claim_commit(s)
    \/ \E s \in Procs : app_claim_rollback(s)
    \/ \E s \in Procs, id \in ProblemIds, u \in UserInputs :
          FirstCall(s) /\ db_claim_problem(s, id, u)

SpecRace == InitRace /\ [][NextRace]_vars

\* The same race between calls of src/app.py alone.
NextRaceApp ==
    \/ \E s \in Procs, id \in ProblemIds, u \in UserInputs :
          FirstCall(s) /\ app_claim_check(s, id, u)
    \/ \E s \in Procs : app_claim_update(s)
    \/ \E s \in Procs : app_claim_commit(s)
    \/ \E s \in Procs : app_claim_rollback(s)

SpecRaceApp == InitRace /\ [][NextRaceApp]_vars

\* One session creating problems and projects and changing their statuses
\* while the clock advances.
NextStatus ==
    \/ Tick
    \/ add_user(users + 1)
    \/ add_project
    \/ \E u \in UserInputs : add_problem(1, u, {})
    \/ \E id \in ProblemIds : db_complete_problem(1, id)
    \/ \E id \in ProblemIds, st \in StatusInputs : app_update_problem_status(1, id, st)
    \/ \E id \in ProblemIds, st \in StatusInputs : db_update_problem_status(1, id, st)
    \/ \E id \in ProjectIds, st \in StatusInputs : app_update_project_status(1, id, st)

SpecStatus == Init /\ [][NextStatus]_vars

\* The stores the scoring is computed from: every user exists, under every
\* assignment of names; every category exists, with any weights; the problems
\* have any status and claimant and any set of categories.
StoreIds    == 1..StoreProblems
CategoryIds == 1..MaxCategories
PointInputs == 1..MaxPoints

StoreRows ==
    { row \in [status : PROBLEM_STATUSES,
               claimed_by_user_id : {NULL} \cup (1..MaxUsers),
               completed_at : {NULL, 1}] :
        (row.status = "Completed") <=> (row.completed_at # NULL) }

InitStore ==
    /\ users = MaxUsers
    /\ usernames \in { f \in [1..MaxUsers -> 1..MaxUsers] :
                          \A u, v \in 1..MaxUsers : u # v => f[u] # f[v] }
    /\ problems \in [StoreIds -> StoreRows]
    /\ projects = << >>
    /\ now = 1
    /\ writer = 0
    /\ txn = << >>
    /\ call = [s \in Procs |-> NoCall]
    /\ categories \in [CategoryIds -> {CategoryRow(p) : p \in PointInputs}]
    /\ problem_categories \in SUBSET (StoreIds \X CategoryIds)
    /\ board = << >>

\* One session claiming, completing and unclaiming while the category weights
\* are changed.
InitPoints == InitStore /\ usernames = [u \in 1..MaxUsers |-> u]

NextPoints ==
    \/ \E c \in CategoryIds, p \in PointInputs : update_category_points(1, c, p)
    \/ \E id \in StoreIds, u \in 1..MaxUsers : db_claim_problem(1, id, u)
    \/ \E id \in StoreIds : db_complete_problem(1, id)
    \/ \E id \in StoreIds : db_unclaim_problem(1, id)

SpecPoints == InitPoints /\ [][NextPoints]_vars

\* The leaderboard page opened in any session on any store.
NextBoard ==
    \/ \E s \in Procs : rerun(s)
    \/ \E s \in Procs : display_leaderboard(s)

SpecBoard == InitStore /\ [][NextBoard]_vars

\* Every session makes one call, of either revision, on one of several
\* problems, or changes the status of a project.
InitFrame ==
    /\ users = MaxUsers
    /\ usernames = [u \in 1..MaxUsers |-> u]
    /\ problems \in [StoreIds -> StoreRows]
    /\ projects \in {<<ProjectRow>>, <<[status |-> "Completed", completed_at |-> 1]>>}
    /\ now = 1
    /\ writer = 0
    /\ txn = << >>
    /\ call = [s \in Procs |-> NoCall]
    /\ categories = << >>
    /\ problem_categories = {}
    /\ board = << >>

NextFrame ==
    \/ \E s \in Procs, id \in StoreIds, u \in 1..MaxUsers :
          FirstCall(s) /\ app_claim_check(s, id, u)
    \/ \E s \in Procs : app_claim_update(s)
    \/ \E s \in Procs : app_claim_commit(s)
    \/ \E s \in Procs : app_claim_rollback(s)
    \/ \E s \in Procs, id \in StoreIds, u \in 1..MaxUsers :
          FirstCall(s) /\ db_claim_problem(s, id, u)
    \/ \E s \in Procs, id \in StoreIds : FirstCall(s) /\ app_unclaim_problem(s, id)
    \/ \E s \in Procs, id \in StoreIds : FirstCall(s) /\ db_unclaim_problem(s, id)
    \/ \E s \in Procs, id \in StoreIds, st \in PROBLEM_STATUSES :
          FirstCall(s) /\ app_update_problem_status(s, id, st)
    \/ \E s \in Procs, id \in StoreIds, st \in PROBLEM_STATUSES :
          FirstCall(s) /\ db_update_problem_status(s, id, st)
    \/ \E s \in Procs, id \in StoreIds : FirstCall(s) /\ db_complete_problem(s, id)
    \/ \E s \in Procs, id \in ProjectIds, st \in PROJECT_STATUSES :
          FirstCall(s) /\ app_update_project_status(s, id, st)

SpecFrame == InitFrame /\ [][NextFrame]_vars

\* A race between unclaims and claims: every session makes one call, an
\* unclaim or a claim for an existing user, of either revision, on a problem
\* that is unclaimed when the first call starts.
NextUnclaimRace ==
    \/ \E s \in Procs, id \in ProblemIds : FirstCall(s) /\ app_unclaim_problem(s, id)
    \/ \E s \in Procs, id \in ProblemIds : FirstCall(s) /\ db_unclaim_problem(s, id)
    \/ \E s \in Procs, id \in ProblemIds, u \in 1..MaxUsers :
          FirstCall(s) /\ app_claim_check(s, id, u)
    \/ \E s \in Procs : app_claim_update(s)
    \/ \E s \in Procs : app_claim_commit(s)
    \/ \E s \in Procs : app_claim_rollback(s)
    \/ \E s \in Procs, id \in ProblemIds, u \in 1..MaxUsers :
          FirstCall(s) /\ db_claim_problem(s, id, u)

SpecUnclaimRace == InitRace /\ [][NextUnclaimRace]_vars

\* The exit paths of claim: every session makes one claim call, of either
\* revision, with any user id, for a problem that is unclaimed when the first
\* call starts or for an id that matches no problem; a call that finds the
\* write lock held either waits or gives up when the busy timeout expires.
NextExits ==
    \/ \E s \in Procs, id \in StoreIds, u \in UserInputs :
          FirstCall(s) /\ app_claim_check(s, id, u)
    \/ \E s \in Procs : app_claim_update(s)
    \/ \E s \in Procs : app_claim_busy(s)
    \/ \E s \in Procs : app_claim_commit(s)
    \/ \E s \in Procs : app_claim_rollback(s)
    \/ \E s \in Procs, id \in StoreIds, u \in UserInputs :
          FirstCall(s) /\ db_claim_problem(s, id, u)
    \/ \E s \in Procs, id \in StoreIds, u \in UserInputs :
          FirstCall(s) /\ db_claim_busy(s, id, u)

SpecExits == InitRace /\ [][NextExits]_vars

\* Claims and completions of one problem with any categories, and nothing
\* else: no unclaim and no status change away from Completed ever happens.
InitAward ==
    /\ users = MaxUsers
    /\ usernames = [u \in 1..MaxUsers |-> u]
    /\ problems = <<ProblemRow(NULL)>>
    /\ projects = << >>
    /\ now = 1
    /\ writer = 0
    /\ txn = << >>
    /\ call = [s \in Procs |-> NoCall]
    /\ categories \in [CategoryIds -> {CategoryRow(p) : p \in PointInputs}]
    /\ problem_categories \in SUBSET ({1} \X CategoryIds)
    /\ board = << >>

NextAward ==
    \/ \E s \in Procs, id \in ProblemIds, u \in 1..MaxUsers : app_claim_check(s, id, u)
    \/ \E s \in Procs : app_claim_update(s)
    \/ \E s \in Procs : app_claim_commit(s)
    \/ \E s \in Procs : app_claim_rollback(s)
    \/ \E s \in Procs, id \in ProblemIds, u \in 1..MaxUsers : db_claim_problem(s, id, u)
    \/ \E s \in Procs, id \in ProblemIds : db_complete_problem(s, id)
    \/ \E s \in Procs, id \in ProblemIds : db_update_problem_status(s, id, "Completed")
    \/ \E s \in Procs, id \in ProblemIds : app_update_problem_status(s, id, "Completed")

SpecAward == InitAward /\ [][NextAward]_vars

\* The same with the claims of src/app.py alone.
NextAwardApp ==
    \/ \E s \in Procs, id \in ProblemIds, u \in 1..MaxUsers : app_claim_check(s, id, u)
    \/ \E s \in Procs : app_claim_update(s)
    \/ \E s \in Procs : app_claim_commit(s)
    \/ \E s \in Procs : app_claim_rollback(s)
    \/ \E s \in Procs, id \in ProblemIds : db_complete_problem(s, id)
    \/ \E s \in Procs, id \in ProblemIds : db_update_problem_status(s, id, "Completed")
    \/ \E s \in Procs, id \in ProblemIds : app_update_problem_status(s, id, "Completed")

SpecAwardApp == InitAward /\ [][NextAwardApp]_vars

\* ------------------------------------------------- properties
\* "absent" claimant: NULL, or the legacy 0 that the code treats as unclaimed
Absent(c) == c = NULL \/ c = SENTINEL

ClaimOps == {"app_claim_problem", "db_claim_problem"}

\* session s starts a claim call for (id, u) in this step
ClaimCalled(s, id, u) == app_claim_check(s, id, u) \/ db_claim_problem(s, id, u)

\* session s completes a claim call with success in this step
ClaimSucceeds(s) ==
    \/ app_claim_commit(s)
    \/ \E id \in ProblemIds, u \in UserInputs : db_claim_problem(s, id, u)

Unclaimed(s, id) == app_unclaim_problem(s, id) \/ db_unclaim_problem(s, id)

Finished(s) == call[s].pc = "done" /\ call[s].op \in ClaimOps

Won(s, t) ==
    /\ call[s].outcome = "success"
    /\ call[t].outcome \in {"AlreadyClaimed", "ClaimConflict"}
    /\ problems[call[s].id].claimed_by_user_id = call[s].user_id

\* C1: when two sessions have each made one claim call for the same existing,
\* unclaimed problem with different existing users, exactly one call reported
\* success, the other reported AlreadyClaimed or ClaimConflict, and the stored
\* claimant is the user of the call that succeeded.
C1_ExactlyOneClaimSucceeds ==
    \A s, t \in Procs :
        ( /\ s # t
          /\ Finished(s) /\ Finished(t)
          /\ call[s].id = call[t].id
          /\ RowExists(problems, call[s].id)
          /\ UserExists(call[s].user_id) /\ UserExists(call[t].user_id)
          /\ call[s].user_id # call[t].user_id )
        => (Won(s, t) \/ Won(t, s))

\* C1 restricted to the calls of src/app.py: the statement that does hold.
C1_AppClaimsExcludeEachOther ==
    \A s, t \in Procs :
        ( /\ s # t
          /\ Finished(s) /\ Finished(t)
          /\ call[s].op = "app_claim_problem" /\ call[t].op = "app_claim_problem"
          /\ call[s].id = call[t].id
          /\ RowExists(problems, call[s].id)
          /\ UserExists(call[s].user_id) /\ UserExists(call[t].user_id)
          /\ call[s].user_id # call[t].user_id )
        => (Won(s, t) \/ Won(t, s))

\* C2: in every reachable state every problem has status Completed if and only
\* if its completed_at is set.
C2_CompletedIffTimestamp ==
    \A id \in 1..Len(problems) :
        (problems[id].status = "Completed") <=> (problems[id].completed_at # NULL)

\* C3: a claim never overwrites a claim: every step that takes a problem's
\* claimant away from an existing user is an unclaim of that problem.
C3_OnlyUnclaimReleases ==
    [][ \A id \in 1..Len(problems) :
          ( /\ UserExists(problems[id].claimed_by_user_id)
            /\ problems'[id].claimed_by_user_id # problems[id].claimed_by_user_id )
          => \E s \in Procs : Unclaimed(s, id) ]_vars

\* C4: in every reachable state a problem whose claimant is not absent has
\* status In Progress or Completed.
C4_ClaimedImpliesStarted ==
    \A id \in 1..Len(problems) :
        ~Absent(problems[id].claimed_by_user_id)
        => problems[id].status \in {"In Progress", "Completed"}

\* C5: in every reachable state a problem's claimant is absent or the id of an
\* existing user, and no claim call made with a user id that matches no user
\* has reported success.
C5_ClaimantExists ==
    /\ \A id \in 1..Len(problems) :
          Absent(problems[id].claimed_by_user_id)
          \/ UserExists(problems[id].claimed_by_user_id)
    /\ \A s \in Procs :
          (Finished(s) /\ call[s].outcome = "success" /\ RowExists(problems, call[s].id))
          => UserExists(call[s].user_id)

\* C6: a claim call for a problem whose claimant is a different existing user
\* reports AlreadyClaimed and leaves the table unchanged, whatever the status.
C6_ClaimedByOtherIsRejected ==
    [][ \A s \in Procs, id \in ProblemIds, v \in UserInputs :
          ( /\ ClaimCalled(s, id, v)
            /\ RowExists(problems, id)
            /\ UserExists(problems[id].claimed_by_user_id)
            /\ problems[id].claimed_by_user_id # v )
          => (call'[s].outcome = "AlreadyClaimed" /\ problems' = problems) ]_vars

\* C7: a claim call with user id None or 0 for an existing problem reports
\* InvalidUser and leaves the problem's row unchanged.
C7_SentinelUserIsInvalid ==
    [][ \A s \in Procs, id \in ProblemIds, v \in {NULL, SENTINEL} :
          (ClaimCalled(s, id, v) /\ RowExists(problems, id))
          => (call'[s].outcome = "InvalidUser" /\ problems' = problems) ]_vars

\* C8: the step in which a claim call for an existing problem p by user u
\* reports success leaves p with claimant u and status In Progress and with
\* the completed_at it had before.
C8_SuccessfulClaimPostcondition ==
    [][ \A s \in Procs :
          (ClaimSucceeds(s) /\ RowExists(problems, call'[s].id))
          => problems'[call'[s].id] =
                [status |-> "In Progress",
                 claimed_by_user_id |-> call'[s].user_id,
                 completed_at |-> problems[call'[s].id].completed_at] ]_vars

\* C8 witness: a claim of src/app.py has succeeded on a problem that carried a
\* completion timestamp, and the timestamp is still there.
C8_Witness ==
    \E s \in Procs :
        /\ call[s].pc = "done" /\ call[s].op = "app_claim_problem"
        /\ call[s].outcome = "success"
        /\ problems[call[s].id].claimed_by_user_id = call[s].user_id
        /\ problems[call[s].id].status = "In Progress"
        /\ problems[call[s].id].completed_at # NULL

\* C9: an unclaim call for an existing problem leaves it with no claimant and
\* status Open, whatever its status and claimant were and whoever calls.
C9_UnclaimPostcondition ==
    [][ \A s \in Procs, id \in ProblemIds :
          (Unclaimed(s, id) /\ RowExists(problems, id))
          => /\ problems'[id].claimed_by_user_id = NULL
             /\ problems'[id].status = "Open" ]_vars

\* C9 witness: one session has unclaimed a problem that another session had
\* claimed and that had been completed.
C9_Witness ==
    \E s, t \in Procs :
        /\ s # t
        /\ call[s].pc = "done" /\ call[s].op = "app_unclaim_problem"
        /\ call[t].pc = "done" /\ call[t].op = "app_claim_problem"
        /\ call[t].outcome = "success" /\ call[t].id = call[s].id
        /\ problems[call[s].id].claimed_by_user_id = NULL
        /\ problems[call[s].id].status = "Open"
        /\ problems[call[s].id].completed_at # NULL

\* C10: a status update of an existing problem with a status s of the
\* enumeration stores s, sets completed_at when s is Completed and clears it
\* when s is not.
C10_StatusUpdatePostcondition ==
    [][ \A s \in Procs, id \in ProblemIds, st \in PROBLEM_STATUSES :
          ( /\ \/ app_update_problem_status(s, id, st)
               \/ db_update_problem_status(s, id, st)
            /\ RowExists(problems, id) )
          => /\ problems'[id].status = st
             /\ (st = "Completed") <=> (problems'[id].completed_at # NULL) ]_vars

\* C10 restricted to src/app.py, problems and projects: the statement that holds.
C10_AppStatusUpdatePostcondition ==
    [][ \A s \in Procs, st \in PROBLEM_STATUSES :
          /\ \A id \in ProblemIds :
                (app_update_problem_status(s, id, st) /\ RowExists(problems, id))
                => /\ problems'[id].status = st
                   /\ (st = "Completed") <=> (problems'[id].completed_at # NULL)
          /\ \A id \in ProjectIds :
                (app_update_project_status(s, id, st) /\ RowExists(projects, id))
                => /\ projects'[id].status = st
                   /\ (st = "Completed") <=> (projects'[id].completed_at # NULL) ]_vars

\* the last call of session s was op(id, st) and the row still has status st
Repeats(s, op, id, st, tbl) ==
    /\ call[s].pc = "done" /\ call[s].op = op
    /\ call[s].id = id /\ call[s].status = st
    /\ RowExists(tbl, id) /\ tbl[id].status = st

SamePresence(old, new) ==
    /\ new.status = old.status
    /\ (new.completed_at = NULL) <=> (old.completed_at = NULL)

StatusOps == {"app_update_problem_status", "db_update_problem_status"}

\* session s makes a call on problem id in this step that takes an id and is
\* not add_problem: a claim, an unclaim or a status update
CalledWithId(s, id) ==
    \/ \E u \in UserInputs : ClaimCalled(s, id, u)
    \/ Unclaimed(s, id)
    \/ \E st \in StatusInputs : app_update_problem_status(s, id, st)
    \/ \E st \in StatusInputs : db_update_problem_status(s, id, st)

\* C12: a claim, an unclaim or a status update called with an id that matches
\* no stored problem reports NotFound and leaves the table unchanged.
C12_MissingIdIsNotFound ==
    [][ \A s \in Procs, id \in ProblemIds :
          (CalledWithId(s, id) /\ ~RowExists(problems, id))
          => (call'[s].outcome = "NotFound" /\ problems' = problems) ]_vars

\* C13: every stored problem status is Open, In Progress or Completed, and a
\* status update called with any other status has reported InvalidStatus.
C13_StatusIsInEnumeration ==
    /\ \A id \in 1..Len(problems) : problems[id].status \in PROBLEM_STATUSES
    /\ \A s \in Procs :
          ( /\ call[s].pc = "done" /\ call[s].op \in StatusOps
            /\ call[s].status \notin PROBLEM_STATUSES )
          => call[s].outcome = "InvalidStatus"

\* session s changes the status of problem id in this step
StatusChanged(s, id) ==
    \/ \E st \in StatusInputs : app_update_problem_status(s, id, st)
    \/ \E st \in StatusInputs : db_update_problem_status(s, id, st)
    \/ db_complete_problem(s, id)

\* C14: a status update or a completion of an existing problem leaves the
\* problem's claimant as it was.
C14_StatusChangeKeepsClaimant ==
    [][ \A s \in Procs, id \in ProblemIds :
          (StatusChanged(s, id) /\ RowExists(problems, id))
          => problems'[id].claimed_by_user_id = problems[id].claimed_by_user_id ]_vars

\* C14 witness: a problem claimed by an existing user has been completed by
\* complete_problem and is still claimed by an existing user.
C14_Witness ==
    \E s \in Procs :
        /\ call[s].pc = "done" /\ call[s].op = "db_complete_problem"
        /\ RowExists(problems, call[s].id)
        /\ problems[call[s].id].status = "Completed"
        /\ UserExists(problems[call[s].id].claimed_by_user_id)

\* the categories linked to problem p
LinkedCategories(p) ==
    { c \in 1..Len(categories) : <<p, c>> \in problem_categories }

\* the sum of the point weights of a set of categories
RECURSIVE Weight(_)
Weight(cs) ==
    IF cs = {} THEN 0
    ELSE LET c == CHOOSE c \in cs : TRUE
         IN  categories[c].points + Weight(cs \ {c})

\* the problems claimed by u with status Completed
CompletedBy(u) ==
    { p \in 1..Len(problems) :
        problems[p].claimed_by_user_id = u /\ problems[p].status = "Completed" }

\* the sum over a set of problems of the weight of each problem's categories
RECURSIVE WeightOfProblems(_)
WeightOfProblems(ps) ==
    IF ps = {} THEN 0
    ELSE LET p == CHOOSE p \in ps : TRUE
         IN  Weight(LinkedCategories(p)) + WeightOfProblems(ps \ {p})

Score(u) == WeightOfProblems(CompletedBy(u))

\* C15: for every user u, get_user_points(u) is the sum, over the problems
\* claimed by u with status Completed, of the sum of the point weights of the
\* categories linked to the problem (0 for a problem without categories).
C15_PointsAreSumOfWeights ==
    \A u \in 1..users : get_user_points(u) = Score(u)

\* C15 witness: a user has completed one problem linked to two categories of
\* different weights and one problem without categories, and the user's points
\* are the sum of the two weights.
C15_Witness ==
    \E u \in 1..users, p, q \in 1..Len(problems) :
        /\ p # q /\ {p, q} \subseteq CompletedBy(u)
        /\ LinkedCategories(p) = {1, 2} /\ LinkedCategories(q) = {}
        /\ categories[1].points # categories[2].points
        /\ get_user_points(u) = categories[1].points + categories[2].points

\* C16: after every step (claim, unclaim, completion, change of a category
\* weight) get_user_points and the totals of get_leaderboard are the sums over
\* the store as it is now, and a change of the weight of category c from w to
\* w2 changes a user's points by (w2 - w) for each Completed problem of that
\* user that is linked to c.
C16_ScoresFollowStore ==
    [][ \A u \in 1..users :
          /\ get_user_points(u)' = Score(u)'
          /\ \A r \in BoardGroups' : r.user = u => r.total_points = Score(u)'
          /\ \A c \in CategoryIds, w \in PointInputs :
                update_category_points(1, c, w)
                => get_user_points(u)' =
                     get_user_points(u)
                     + (w - categories[c].points)
                       * Cardinality({ p \in CompletedBy(u) : c \in LinkedCategories(p) }) ]_vars

\* C16 witness: the last call changed the weight of a category that is linked
\* to a Completed problem of a user whose other Completed problem is linked
\* to the other category, and the user's points are the sum of the two weights.
C16_Witness ==
    \E u \in 1..users, p, q \in 1..Len(problems) :
        /\ call[1].pc = "done" /\ call[1].op = "update_category_points"
        /\ call[1].id = 1
        /\ p # q /\ {p, q} \subseteq CompletedBy(u)
        /\ LinkedCategories(p) = {1} /\ LinkedCategories(q) = {2}
        /\ categories[1].points = MaxPoints /\ categories[2].points = 1
        /\ get_user_points(u) = MaxPoints + 1

\* the leaderboard page has been rendered and its call is the session's last
Displayed == \E s \in Procs : call[s].pc = "done" /\ call[s].op = "display_leaderboard"

\* C17: the list returned by get_leaderboard has exactly one entry for every
\* existing user, and the entry of a user without Completed problems has
\* total 0.
C17_OneEntryPerUser ==
    Displayed =>
        /\ Len(board) = users
        /\ \A u \in 1..users :
              /\ Cardinality({ i \in 1..Len(board) : board[i][1] = usernames[u] }) = 1
              /\ CompletedBy(u) = {}
                 => \E i \in 1..Len(board) : board[i] = <<usernames[u], 0>>

\* C17 witness: the list holds a user with points and a user with none.
C17_Witness ==
    /\ Displayed
    /\ \E u, v \in 1..users :
          /\ CompletedBy(u) # {} /\ CompletedBy(v) = {}
          /\ \E i, j \in 1..Len(board) :
                /\ board[i][1] = usernames[u] /\ board[i][2] > 0
                /\ board[j] = <<usernames[v], 0>>

\* C18: the list returned by get_leaderboard is ordered by points descending
\* and, among entries of equal points, by username ascending.
C18_OrderedByPointsThenName ==
    Displayed =>
        \A i, j \in 1..Len(board) :
            i < j => \/ board[i][2] > board[j][2]
                     \/ (board[i][2] = board[j][2] /\ board[i][1] < board[j][1])

\* C19: the ranks shown are 1..N from the top row down, N the number of users:
\* distinct, without gaps, in the order of the list (points descending), so
\* that rows of equal points get different, adjacent ranks.
C19_RanksAreSequential ==
    (Displayed /\ board # << >>) =>
        LET data == display_data(board)
            N == Len(board)
        IN  /\ N = users
            /\ DOMAIN data.Rank = 1..N
            /\ { data.Rank[i] : i \in 1..N } = 1..N
            /\ \A i \in 1..N : data.Rank[i] = i
            /\ \A i, j \in 1..N : i # j => data.Rank[i] # data.Rank[j]
            /\ \A i \in 1..(N - 1) :
                  /\ data.Rank[i + 1] = data.Rank[i] + 1
                  /\ data.Points[i] >= data.Points[i + 1]
            /\ \A i \in 1..N : <<data.Username[i], data.Points[i]>> = board[i]

\* C19 witness: two users of equal, positive points are shown with ranks 1
\* and 2.
C19_Witness ==
    /\ Displayed /\ Len(board) >= 2
    /\ board[1][2] = board[2][2] /\ board[1][2] > 0
    /\ display_data(board).Rank[1] = 1 /\ display_data(board).Rank[2] = 2

\* the calls that name a problem: claim, unclaim, status update, completion
ProblemOps ==
    ClaimOps \cup StatusOps
    \cup {"app_unclaim_problem", "db_unclaim_problem", "db_complete_problem"}

\* C20: a step of a claim, an unclaim or a status change called on problem p
\* leaves the row of every other problem and every project as it was, and
\* adds or removes no row.
C20_OtherRowsUnchanged ==
    [][ \A s \in Procs :
          (call'[s] # call[s] /\ call'[s].op \in ProblemOps)
          => /\ Len(problems') = Len(problems)
             /\ \A q \in 1..Len(problems) :
                   q # call'[s].id => problems'[q] = problems[q]
             /\ projects' = projects ]_vars

\* C20 witness: a claim of src/app.py on one problem and an unclaim on another
\* problem, made by two sessions, have both taken effect.
C20_Witness ==
    \E s, t \in Procs :
        /\ call[s].pc = "done" /\ call[s].op = "app_claim_problem"
        /\ call[s].outcome = "success"
        /\ call[t].pc = "done" /\ call[t].op = "db_unclaim_problem"
        /\ call[t].id # call[s].id
        /\ problems[call[s].id].claimed_by_user_id = call[s].user_id
        /\ problems[call[t].id].claimed_by_user_id = NULL
        /\ problems[call[t].id].completed_at # NULL

\* session s ends a claim call of src/app.py that had passed the initial check
AppClaimEnds(s) ==
    /\ call[s].op = "app_claim_problem" /\ call[s].pc = "verify"
    /\ call'[s].pc = "done"

\* C21: a claim of src/app.py that passed the initial check and ends while the
\* problem is held by a different claimant reports ClaimConflict, releases its
\* transaction and leaves the table, the problem's claimant, status and
\* completed_at included, as it was.
C21_LostRaceIsClaimConflict ==
    [][ \A s \in Procs :
          ( /\ AppClaimEnds(s)
            /\ app_is_claimed(problems[call[s].id].claimed_by_user_id)
            /\ problems[call[s].id].claimed_by_user_id # call[s].user_id )
          => /\ call'[s].outcome = "ClaimConflict"
             /\ problems' = problems
             /\ writer' = 0 /\ txn' = << >> ]_vars

\* C21 witness: one session's claim has reported ClaimConflict and the problem
\* is held by the user of another session's claim, which reported success.
C21_Witness ==
    \E s, t \in Procs :
        /\ s # t
        /\ call[s].pc = "done" /\ call[s].op = "app_claim_problem"
        /\ call[s].outcome = "ClaimConflict"
        /\ call[t].pc = "done" /\ call[t].op \in ClaimOps
        /\ call[t].outcome = "success" /\ call[t].id = call[s].id
        /\ call[t].user_id # call[s].user_id
        /\ problems[call[s].id].claimed_by_user_id = call[t].user_id
        /\ writer = 0 /\ txn = << >>

\* C22: the write of a claim takes effect only on a problem whose claimant is
\* absent at that moment: every step in which a claim call reports success and
\* changes the problem's row starts from a row without claimant.
C22_ClaimWritesOnUnclaimedOnly ==
    [][ \A s \in Procs :
          ( /\ ClaimSucceeds(s)
            /\ RowExists(problems, call'[s].id)
            /\ problems'[call'[s].id] # problems[call'[s].id] )
          => Absent(problems[call'[s].id].claimed_by_user_id) ]_vars

UnclaimOps == {"app_unclaim_problem", "db_unclaim_problem"}

\* every session has made its call on problem id and the call has returned
AllReturned(id) ==
    \A s \in Procs : call[s].pc = "done" /\ call[s].id = id

\* C23: when unclaims and claims of one problem that started unclaimed have
\* all returned, at least one of each, the problem either has no claimant and
\* status Open, or has the user of one of the claims as claimant and status
\* In Progress.
C23_UnclaimOrClaimWins ==
    \A id \in 1..Len(problems) :
        ( /\ AllReturned(id)
          /\ \E s \in Procs : call[s].op \in UnclaimOps
          /\ \E s \in Procs : call[s].op \in ClaimOps )
        => \/ /\ problems[id].claimed_by_user_id = NULL
              /\ problems[id].status = "Open"
           \/ /\ \E s \in Procs : /\ call[s].op \in ClaimOps
                                   /\ problems[id].claimed_by_user_id = call[s].user_id
              /\ problems[id].status = "In Progress"

\* C23 witness: an unclaim and a claim of src/app.py have both returned, the
\* claim with success, and the problem is held by the claim's user.
C23_Witness ==
    \E s, t \in Procs :
        /\ AllReturned(call[s].id)
        /\ call[s].op = "app_unclaim_problem"
        /\ call[t].op = "app_claim_problem" /\ call[t].outcome = "success"
        /\ problems[call[s].id].claimed_by_user_id = call[t].user_id
        /\ problems[call[s].id].status = "In Progress"

\* C24: a claim call that has returned, by whichever exit, holds no write
\* lock, and when no call holds the lock no uncommitted copy of the table
\* exists; the lock is only ever held by a claim call between its UPDATE and
\* its commit or rollback.
C24_EveryExitReleases ==
    /\ \A s \in Procs : call[s].pc \in {"idle", "done"} => writer # s
    /\ writer = 0 => txn = << >>
    /\ writer # 0 => (call[writer].op = "app_claim_problem" /\ call[writer].pc = "verify")

\* C24 witness: one claim has given up on the held lock, the claim that held
\* it has failed its verification or succeeded since, and the lock is free.
C24_Witness ==
    \E s, t \in Procs :
        /\ call[s].pc = "done" /\ call[s].outcome = "StorageError"
        /\ call[t].pc = "done" /\ call[t].op = "app_claim_problem"
        /\ call[t].outcome \in {"success", "ClaimConflict"}
        /\ writer = 0 /\ txn = << >>

\* C25: a claim for a user id other than None and 0 treats a stored claimant 0
\* as it treats NULL: the initial check of src/app.py lets the call through,
\* its UPDATE writes the user and In Progress into the session's copy, which
\* passes the verification, and the claim of problems.py stores the same.
C25_SentinelIsUnclaimed ==
    [][ \A s \in Procs, c \in {NULL, SENTINEL} :
          /\ \A id \in ProblemIds, u \in 1..MaxUsers :
                ( /\ app_claim_check(s, id, u)
                  /\ RowExists(problems, id)
                  /\ problems[id].claimed_by_user_id = c )
                => call'[s].pc = "update"
          /\ ( /\ app_claim_update(s)
               /\ problems[call[s].id].claimed_by_user_id = c )
             => /\ txn'[call[s].id] =
                      [problems[call[s].id] EXCEPT !.claimed_by_user_id = call[s].user_id,
                                                   !.status = "In Progress"]
                /\ app_claim_verified(txn', call[s].id, call[s].user_id)
          /\ \A id \in ProblemIds, u \in 1..MaxUsers :
                ( /\ db_claim_problem(s, id, u)
                  /\ RowExists(problems, id)
                  /\ problems[id].claimed_by_user_id = c )
                => problems'[id] =
                      [problems[id] EXCEPT !.claimed_by_user_id = u,
                                           !.status = "In Progress"] ]_vars

\* C25 witness: a claim of src/app.py has written its user into its copy of a
\* row whose committed claimant is 0.
C25_Witness ==
    \E s \in Procs :
        /\ call[s].pc = "verify"
        /\ problems[call[s].id].claimed_by_user_id = SENTINEL
        /\ txn[call[s].id].claimed_by_user_id = call[s].user_id
        /\ txn[call[s].id].status = "In Progress"

\* C26: for every user u the total of u's group in get_leaderboard is
\* get_user_points(u), and the list a call has returned holds the entry
\* (username of u, get_user_points(u)).
C26_BoardPointsAreUserPoints ==
    /\ \A u \in 1..users :
          \E r \in BoardGroups : r.user = u /\ r.total_points = get_user_points(u)
    /\ \A r \in BoardGroups : r.total_points = get_user_points(r.user)
    /\ Displayed =>
          \A u \in 1..users :
              \E i \in 1..Len(board) : board[i] = <<usernames[u], get_user_points(u)>>

\* C26 witness: the list returned holds two users with different positive
\* points, each with the points get_user_points gives.
C26_Witness ==
    /\ Displayed
    /\ \E u, v \in 1..users :
          /\ get_user_points(u) > get_user_points(v) /\ get_user_points(v) > 0
          /\ board = << <<usernames[u], get_user_points(u)>>,
                        <<usernames[v], get_user_points(v)>> >>

\* C27: in every reachable state of the table, for every stored problem and
\* every user id, claim_problem of src/app.py and claim_problem of problems.py,
\* each run alone, report the same outcome and leave the same table.
C27_RevisionsAgree ==
    \A id \in 1..Len(problems), u \in UserInputs :
        writer = 0 => app_claim_result(problems, id, u) = db_claim_result(problems, id, u)

\* C27 restricted to an existing unclaimed problem and a user id other than
\* None and 0: the statement that does hold.
C27_RevisionsAgreeOnUnclaimed ==
    \A id \in 1..Len(problems), u \in 1..MaxUsers :
        (writer = 0 /\ Absent(problems[id].claimed_by_user_id))
        => app_claim_result(problems, id, u) = db_claim_result(problems, id, u)

\* C28: where no unclaim and no status change away from Completed happens, a
\* problem p that is Completed after a claim call for (p, u) reported success
\* counts for u with the weight of all its categories, and a problem that is
\* not Completed or has no claimant counts for nobody.
C28_ClaimedThenCompletedScores ==
    /\ \A s \in Procs :
          ( /\ Finished(s) /\ call[s].outcome = "success"
            /\ RowExists(problems, call[s].id)
            /\ problems[call[s].id].status = "Completed" )
          => /\ call[s].id \in CompletedBy(call[s].user_id)
             /\ get_user_points(call[s].user_id) >= Weight(LinkedCategories(call[s].id))
    /\ \A p \in 1..Len(problems) :
          (problems[p].status # "Completed" \/ problems[p].claimed_by_user_id = NULL)
          => \A u \in 1..users :
                get_user_points(u) = WeightOfProblems(CompletedBy(u) \ {p})

\* C29: in src/app.py, a claim call for (p, u) made while the stored claimant
\* of p is already u returns the already-claimed error at once and leaves the
\* table, the write lock and every open transaction as they were.
C29_HolderIsRefused ==
    [][\A s \in Procs, id \in ProblemIds, u \in 1..MaxUsers :
          ( /\ app_claim_check(s, id, u)
            /\ RowExists(problems, id)
            /\ problems[id].claimed_by_user_id = u )
          => /\ call'[s].pc = "done"
             /\ call'[s].outcome = "AlreadyClaimed"
             /\ problems' = problems
             /\ writer' = writer
             /\ txn' = txn]_vars

\* a call of src/app.py's claim has been refused as already claimed while the
\* requesting user is the stored claimant
C29_Witness ==
    \E s \in Procs :
        /\ Finished(s)
        /\ call[s].op = "app_claim_problem"
        /\ call[s].outcome = "AlreadyClaimed"
        /\ RowExists(problems, call[s].id)
        /\ call[s].user_id \in 1..MaxUsers
        /\ problems[call[s].id].claimed_by_user_id = call[s].user_id
====
